---- MODULE Spec2Model ----
(***************************************************************************)
(* Model of the config watcher (rust/src): the supervisor of main.rs, one  *)
(* monitor_service task per configured service, the Git worktree adapter   *)
(* of git.rs and the restart dispatch of service.rs, nginx.rs and          *)
(* docker_utils.rs.                                                        *)
(*                                                                         *)
(* Every await of a task is one step.  External commands whose exit status *)
(* the code inspects and that depend on the network, the container runtime *)
(* or a user command (fetch, pull, clone, checkout, validation, chown,     *)
(* docker, compose, custom commands) succeed or fail by the environment's  *)
(* choice.  Local git plumbing (rev-parse, status, reset) is computed from *)
(* the modelled worktree: reset --hard HEAD@{1} fails exactly when the     *)
(* reflog has no second entry.                                             *)
(***************************************************************************)
EXTENDS Naturals, Sequences, FiniteSets, TLC

\* Commits of the tracked remote branch are numbered 1..MaxCommit in push order.
MaxCommit == 2

\* global.watch_interval (main.rs:148), in units of time.
WatchInterval == 1

\* The longest duration literal, in characters.
MaxLiteralLen == 3

\* The longest nginx configuration file, in pieces of text, and the most
\* applications of fix_issues to it.
MaxFileLen == 5
MaxFixes == 2

\* The most healthcheck notifications of a run.
MaxNotifications == 2

\* The most services of a services file.
MaxServices == 2

\* The most calls of the PID file functions in a run.
MaxPidCalls == 3

\* A commit hash, as rev-parse prints it (git.rs:216, 234).  RemoteCommit(n) is
\* the n-th commit of the remote branch; LocalCommit(n) is a commit made in the
\* worktree (or the merge of such commits) whose history holds the remote
\* commits up to the n-th: the local branch is ahead of, or has diverged from,
\* the remote.
RemoteCommit(n) == <<"remote", n>>
LocalCommit(n) == <<"local", n>>

IsLocal(c) == c[1] = "local"
Base(c) == c[2]

\* "No commit": an unset current_commit, a missing HEAD or reflog entry.
NoCommit == <<"none", 0>>

\* HEAD of a worktree that is checked out on another branch than the configured one.
OtherBranchHead == <<"other", 0>>

ServiceNames == {"X", "Y"}

ServiceTypes == {"nginx", "apache", "generic", "custom"}

ContainerStatus == {"Running", "Stopped", "NotExists"}

\* Option<bool> of ServiceConfig
OptBool == {"unset", "true", "false"}

VARIABLES
    services,        \* config.services: the names of the configured services
    cfg,             \* per service: the options the loop reads (immutable after load)
    pc,              \* per service: the await the monitor_service task is at
    wt,              \* per service: the local worktree under local_path
    remote,          \* per service: head of the tracked branch on the remote
    current_commit,  \* per service: GitRepo.current_commit when the last adapter call returned
    current_hash,    \* per service: HEAD as check_for_updates read it before its fetch (git.rs:170)
    container,       \* per service: status of the service's container
    log,             \* per service: the events of the current (or last) cycle, in order
    timer,           \* per service: the time slept since the last cycle completed
    supPc,           \* where main is
    sigPc,           \* where the Ctrl+C task is
    chan,            \* messages queued in the shutdown channel (capacity 1)
    shutdownBy,      \* which branch of main's select fired
    lockfile,        \* /var/run/config_watcher.lock: "none" (no file), or the PID in it:
                     \* "own", "live" (another, live process), "stale" (a dead process)
    duration_str,    \* the duration literal: global.startup_grace_period as loaded, and
                     \* the argument of utils::parse_duration
    grace_period,    \* per service: the seconds its task sleeps before its first step
    parsed,          \* what utils::parse_duration returned
    conf_file,       \* the content of a *.conf file under an nginx service's local_path
    conf_after_first,\* that content as the first fix_issues left it
    fix_count,       \* the applications of fix_issues so far
    nginx_settings,  \* the service's auto_fix and its custom setting enable_dir_listing
    hc_call,         \* the last healthcheck notification: function, url, is_error
    hc_sent,         \* the HTTP requests sent by the notifications, in order
    hc_returned,     \* what each notification returned to its caller, in order
    services_json,   \* the services file: its list of services, or Malformed
    loaded,          \* what Config::load_from_json returned
    task,            \* the tasks main spawned from the loaded services, in their
                     \* order: "idle", or "git" while a git command runs in local_path
    pid_file,        \* a PID file: whether it exists, and its content
    pid_calls,       \* the calls of the PID file functions so far: function, the file
                     \* before and after, and what the call returned
    compose_config,  \* a DockerComposeConfig: its compose_file, the files of its
                     \* compose_dir, and whether `docker compose version` runs
    compose_pc,      \* where recreate_with_docker_compose is
    compose_issued,  \* the compose commands it issued, each with how it ended
    compose_returned, \* what it returned
    acq_entry,       \* per watcher process: how it acquires the lockfile
    acq_pc,          \* per watcher process: where its acquisition is
    acq_read         \* per watcher process: the PID it read from the lockfile

vars == <<services, cfg, pc, wt, remote, current_commit, current_hash, container, log,
          timer, supPc, sigPc, chan, shutdownBy, lockfile, duration_str, grace_period, parsed,
          conf_file, conf_after_first, fix_count, nginx_settings,
          hc_call, hc_sent, hc_returned, services_json, loaded, task, pid_file, pid_calls,
          compose_config, compose_pc, compose_issued, compose_returned,
          acq_entry, acq_pc, acq_read>>

\* The configuration, immutable after load
confVars == <<services, cfg, duration_str>>

\* The state of the library functions that the loop does not call
nginxVars == <<conf_file, conf_after_first, fix_count, nginx_settings>>
hcVars == <<hc_call, hc_sent, hc_returned>>
loadVars == <<services_json, loaded, task>>
pidVars == <<pid_file, pid_calls>>
composeVars == <<compose_config, compose_pc, compose_issued, compose_returned>>
acquireVars == <<acq_entry, acq_pc, acq_read>>
libVars == <<parsed, nginxVars, hcVars, loadVars, pidVars, composeVars, acquireVars>>

loopVars == <<pc, wt, remote, current_commit, current_hash, container, log, timer>>
supVars == <<supPc, sigPc, chan, shutdownBy, lockfile>>

-----------------------------------------------------------------------------
(* Configuration: config.rs *)

effective_auto_fix(auto_fix, default) ==
    IF auto_fix = "unset" THEN default ELSE auto_fix = "true"

effective_monitor_logs(monitor_logs, default) ==
    IF monitor_logs = "unset" THEN default ELSE monitor_logs = "true"

\* permissions: "none" (no permissions block), "fix" (fix: true), "nofix" (fix: false)
effective_fix_permissions(permissions, default) ==
    IF permissions = "none" THEN default ELSE permissions = "fix"

\* GlobalSettings: the serde defaults, and two settings that flip them.
GlobalSettings ==
    { [auto_fix |-> FALSE, fix_permissions |-> TRUE, monitor_logs |-> TRUE,
       disable_restart |-> FALSE, use_docker_compose |-> FALSE],
      [auto_fix |-> TRUE, fix_permissions |-> FALSE, monitor_logs |-> FALSE,
       disable_restart |-> FALSE, use_docker_compose |-> TRUE],
      [auto_fix |-> FALSE, fix_permissions |-> TRUE, monitor_logs |-> TRUE,
       disable_restart |-> TRUE, use_docker_compose |-> FALSE] }

ServiceConfig ==
    [service_type : ServiceTypes,
     validation_command : BOOLEAN,      \* Some(cmd) / None
     restart_command : BOOLEAN,         \* Some(cmd) / None
     use_docker_compose : BOOLEAN,
     disable_restart : BOOLEAN,
     auto_fix : OptBool,
     monitor_logs : OptBool,
     permissions : {"none", "fix", "nofix"},
     healthcheck_url : BOOLEAN]         \* Some(url) / None

\* What monitor_service and the handlers read of (service, global).
Effective(service, global) ==
    [service_type |-> service.service_type,
     validation_command |-> service.validation_command,
     restart_command |-> service.restart_command,
     healthcheck_url |-> service.healthcheck_url,
     auto_fix |-> effective_auto_fix(service.auto_fix, global.auto_fix),
     monitor_logs |-> effective_monitor_logs(service.monitor_logs, global.monitor_logs),
     fix_permissions |->
         /\ effective_fix_permissions(service.permissions, global.fix_permissions)
         /\ service.permissions # "none",
     restart_enabled |-> ~service.disable_restart /\ ~global.disable_restart,
     use_docker_compose |-> service.use_docker_compose \/ global.use_docker_compose]

\* An option is varied where the code reads it: auto_fix after a failed
\* validation command, monitor_logs for nginx, compose when the restart is
\* enabled, restart_command where restart_service looks at it (with the
\* restart enabled or disabled).
\* A custom service has the two commands spec.md 4.4 requires of it; a
\* healthcheck_url (read by no step of the loop) goes with services whose
\* cycle has a validation and a restart.
Sampled(e) ==
    /\ ~e.validation_command => ~e.auto_fix
    /\ e.service_type # "nginx" => e.monitor_logs
    /\ ~e.restart_enabled => ~e.use_docker_compose
    /\ e.restart_command => e.service_type # "nginx" /\ ~e.use_docker_compose
    /\ e.service_type = "custom" => e.validation_command /\ (e.restart_enabled => e.restart_command)
    /\ e.healthcheck_url => e.validation_command /\ e.restart_enabled

EffectiveConfigs ==
    { e \in { Effective(sc, g) : sc \in ServiceConfig, g \in GlobalSettings } : Sampled(e) }

\* Whether service.docker_compose_dir and global.default_compose_dir are set
ComposeDirs(service_dir, global_dir) ==
    [docker_compose_dir |-> service_dir, default_compose_dir |-> global_dir]

\* service.rs:187-206: the compose directory is the service's, else the global
\* default, else local_path, else the current directory
resolve_compose_directory(c) ==
    IF c.docker_compose_dir THEN "docker_compose_dir"
    ELSE IF c.default_compose_dir THEN "default_compose_dir"
    ELSE "local_path or current_dir"

-----------------------------------------------------------------------------
(* Git worktree adapter: git.rs *)

\* A worktree: whether path/.git exists, HEAD, the reflog entry HEAD@{1},
\* origin/<branch> as of the last fetch, uncommitted local changes, an
\* unfinished merge, the number of stash entries, and whether the configured
\* branch is checked out.
NoWorktree ==
    [exists |-> FALSE, head |-> NoCommit, prev |-> NoCommit, origin |-> NoCommit,
     dirty |-> FALSE, merging |-> FALSE, stash |-> 0, on_branch |-> TRUE]

\* HEAD moves to c: the reflog gets a new entry, the old HEAD becomes HEAD@{1}.
MoveHead(w, c) == [w EXCEPT !.head = c, !.prev = w.head]

\* git.rs:65 clone(): shallow clone of the branch; the reflog has one entry.
CloneResult(r) ==
    [NoWorktree EXCEPT !.exists = TRUE, !.head = RemoteCommit(r), !.origin = RemoteCommit(r)]

\* git.rs:337 fetch(): origin/<branch> now names the remote head.
FetchResult(w, r) == [w EXCEPT !.origin = RemoteCommit(r)]

\* What a successful pull leaves HEAD at: the remote head of the moment by
\* fast-forward, or, the local branch holding commits of its own, a merge
\* commit that holds the remote head.
PullTarget(w, r) == IF IsLocal(w.head) THEN LocalCommit(r) ELSE RemoteCommit(r)

\* git.rs:354 pull() succeeding: with nothing new ("Already up to date") HEAD
\* and the reflog stay as they are.
PullResult(w, r) ==
    IF Base(w.head) = r
    THEN FetchResult(w, r)
    ELSE MoveHead(FetchResult(w, r), PullTarget(w, r))

\* git.rs:354 pull() stopping with CONFLICT: HEAD stays, the merge is unfinished.
ConflictResult(w, r) == [FetchResult(w, r) EXCEPT !.merging = TRUE]

\* What `git pull` can answer (git.rs:360-366 looks at the exit status only).
\* A merge conflicts only when local commits meet new remote commits; git
\* refuses to pull into an unfinished merge.
PullOutcomes(w, r) ==
    IF w.merging THEN {"error"}
    ELSE IF IsLocal(w.head) /\ Base(w.head) < r THEN {"ok", "error", "conflict"}
         ELSE {"ok", "error"}

\* git.rs:371 reset_hard(commit)
ResetHardResult(w, c) ==
    MoveHead([w EXCEPT !.dirty = FALSE, !.merging = FALSE], c)

\* git.rs:301 stash_changes(), git.rs:319 stash_pop()
StashResult(w) == [w EXCEPT !.dirty = FALSE, !.stash = w.stash + 1]
StashPopResult(w) ==
    IF w.stash > 0 THEN [w EXCEPT !.dirty = TRUE, !.stash = w.stash - 1] ELSE w

\* An adapter call returns the worktree it leaves, the current_commit field
\* of the GitRepo it ran on, and Ok (TRUE) or Err (FALSE).
Ret(w, cc, ok) == [wt |-> w, current_commit |-> cc, ok |-> ok]

\* git.rs:388 switch_branch(): stash if dirty, check out the local branch
\* (somewhere at or behind the remote head) or create a tracking branch from
\* origin/<branch>, pop the stash; a failing checkout returns before the pop.
SwitchBranchResults(w, r) ==
    LET w1 == IF w.dirty THEN StashResult(w) ELSE w
        pop(x) == IF w.dirty THEN StashPopResult(x) ELSE x
    IN  { [wt |-> w1, ok |-> FALSE] }
        \cup { [wt |-> pop(MoveHead([w1 EXCEPT !.on_branch = TRUE], c)), ok |-> TRUE] :
                 c \in { RemoteCommit(k) : k \in 1..r } }
        \cup { [wt |-> pop(MoveHead([w1 EXCEPT !.on_branch = TRUE,
                                               !.origin = RemoteCommit(r)],
                                     RemoteCommit(r))),
                ok |-> TRUE] }

\* git.rs:116-162 update() from the fetch on; previous is the commit recorded
\* at git.rs:104, before any branch switch.
UpdateFromFetch(w, r, previous) ==
    LET fetched == FetchResult(w, r)
        remote_commit == fetched.origin
        has_local_changes == fetched.dirty
        w1 == IF has_local_changes THEN StashResult(fetched) ELSE fetched
        pop(x) == IF has_local_changes THEN StashPopResult(x) ELSE x
    IN  { Ret(w, previous, FALSE) }                                   \* fetch failed
        \cup
        ( IF remote_commit # previous
          THEN { IF o = "ok" THEN Ret(pop(PullResult(w1, r)), remote_commit, TRUE)
                 ELSE IF o = "conflict"
                      THEN Ret(ResetHardResult(ConflictResult(w1, r), previous),
                               previous, FALSE)
                      ELSE Ret(w1, previous, FALSE) : o \in PullOutcomes(w1, r) }
          ELSE { Ret(fetched, previous, TRUE) } )

\* git.rs:100 update()
UpdateResults(w, r) ==
    LET previous_commit == w.head
    IN  IF w.on_branch
        THEN UpdateFromFetch(w, r, previous_commit)
        ELSE UNION { IF sw.ok THEN UpdateFromFetch(sw.wt, r, previous_commit)
                     ELSE { Ret(sw.wt, previous_commit, FALSE) } :
                     sw \in SwitchBranchResults(w, r) }

\* git.rs:65 clone(): the clone command succeeds or fails.
CloneResults(w, r) ==
    { Ret(CloneResult(r), RemoteCommit(r), TRUE), Ret(w, NoCommit, FALSE) }

\* git.rs:56 init(), on a GitRepo made by from_service
InitResults(w, r) ==
    IF w.exists THEN UpdateResults(w, r) ELSE CloneResults(w, r)

\* A revert that resets to HEAD instead of HEAD@{1}.
RevertResultToHead(w) ==
    IF ~w.exists \/ w.prev = NoCommit
    THEN Ret(w, NoCommit, FALSE)
    ELSE Ret(w, w.head, TRUE)

\* git.rs:193 revert_changes() behind git.rs:565 service::revert_changes():
\* reset --hard HEAD@{1}, then current_commit = rev-parse HEAD.
RevertResult(w) ==
    IF ~w.exists \/ w.prev = NoCommit
    THEN Ret(w, NoCommit, FALSE)
    ELSE LET w1 == ResetHardResult(w, w.prev)
         IN  Ret(w1, w1.head, TRUE)

-----------------------------------------------------------------------------
(* The handlers of main.rs as the order of their steps *)

\* main.rs:243 / main.rs:338: after the restart step
AfterRestartPc(c) ==
    IF c.service_type = "nginx" /\ c.monitor_logs THEN "logs" ELSE "sleep"

\* A handler that restarts whatever disable_restart says.
AfterPermissionsPcRestarts(c) == "restart"

\* main.rs:234, 285, 329: after the permission step
AfterPermissionsPc(c) ==
    IF c.restart_enabled THEN "restart" ELSE AfterRestartPc(c)

\* A handler that returns Err when the permissions could not be fixed.
PermissionsFailedPcReturns(c) == "failed"

\* main.rs:228-230, 279-281, 323-325: fix_permissions returned Err: warn!, then
\* on as after a fix that worked
PermissionsFailedPc(c) == AfterPermissionsPc(c)

\* main.rs:224, 275, 319: after a passed or absent validation
AfterValidatePc(c) ==
    IF c.fix_permissions THEN "fixperm" ELSE AfterPermissionsPc(c)

\* A handler that goes to the restart without validating.
UpdatedPcSkipsValidation(c) == AfterValidatePc(c)

\* main.rs:157-171: check_for_updates returned Ok(true)
UpdatedPc(c) ==
    IF c.validation_command THEN "validate" ELSE AfterValidatePc(c)

\* A handler that goes on after a failed validation.
ValidationFailedPcGoesOn(c) == AfterValidatePc(c)

\* main.rs:209-221: the validation command failed
ValidationFailedPc(c) ==
    IF c.auto_fix THEN "revert" ELSE "failed"

\* main.rs:220 after the revert attempt: return Err(..), which `?` at
\* main.rs:163 makes the result of monitor_service
RevertedPc(c) == "failed"

\* main.rs:237-240: the restart failed: return Err(e.into())
RestartFailedPc(c) == "failed"

\* A loop that handles "no update" like an update.
NoUpdatePcUpdates(c) == UpdatedPc(c)

\* main.rs:172-185: check_for_updates returned Ok(false)
NoUpdatePc(c) ==
    IF c.service_type = "nginx" /\ c.monitor_logs THEN "logs" ELSE "sleep"

\* A loop that ends on a failed check.
CheckFailedPcEnds(c) == "failed"

\* main.rs:187-189: check_for_updates returned Err: log it, go on to the sleep
CheckFailedPc(c) == "sleep"

\* main.rs:141-144: init_repository returned Err: return Err(e.into())
InitFailedPc(c) == "failed"

\* The docker, compose or custom command the restart step issues; "none" when
\* it fails before issuing one (service.rs:96, docker_utils.rs:62).
\* nginx.rs:24 restart_nginx, service.rs:73 restart_web_service,
\* service.rs:106 restart_generic_service, docker_utils.rs:50 restart_container.
\* docker restart for a stopped container too
DockerCommandRestartsStopped(status) ==
    IF status = "NotExists" THEN "none" ELSE "docker_restart"

DockerCommand(status) ==
    CASE status = "Running" -> "docker_restart"
      [] status = "Stopped" -> "docker_start"
      [] OTHER -> "none"

ComposeCommand(status) ==
    IF status = "NotExists" THEN "compose_recreate" ELSE "compose_restart"

RestartCommand(c, status) ==
    IF c.service_type = "nginx"
    THEN IF c.use_docker_compose THEN "compose_restart" ELSE DockerCommand(status)
    ELSE IF c.restart_command THEN "custom_restart"
         ELSE IF c.use_docker_compose THEN ComposeCommand(status)
              ELSE DockerCommand(status)

\* The container after the command succeeded.
Restarted(cmd, status) == IF cmd = "custom_restart" THEN status ELSE "Running"

-----------------------------------------------------------------------------
(* Duration literals: main.rs:342-359 and utils.rs:419-448 *)

\* A string is a sequence of characters, each a one-character string.
Digits == {"0", "2", "3", "6"}
Units == {"s", "m", "h", "d"}
Alphabet == Digits \cup Units \cup {"x", "S", " ", "+"}

Literals == UNION { [1..n -> Alphabet] : n \in 0..MaxLiteralLen }

\* char::is_digit(10) and its value
is_digit(ch) == ch \in {"0", "1", "2", "3", "4", "5", "6", "7", "8", "9"}

DigitValue(ch) ==
    CASE ch = "0" -> 0 [] ch = "1" -> 1 [] ch = "2" -> 2 [] ch = "3" -> 3 [] ch = "4" -> 4
      [] ch = "5" -> 5 [] ch = "6" -> 6 [] ch = "7" -> 7 [] ch = "8" -> 8 [] ch = "9" -> 9

Ok(n) == [ok |-> TRUE, secs |-> n]
Err == [ok |-> FALSE, secs |-> 0]
NoResult == [ok |-> FALSE, secs |-> 1]

RECURSIVE DecimalValue(_)
DecimalValue(str) ==
    IF str = <<>> THEN 0
    ELSE 10 * DecimalValue(SubSeq(str, 1, Len(str) - 1)) + DigitValue(str[Len(str)])

\* str::parse::<u64> and str::parse::<u32>: decimal digits after an optional
\* "+", at least one digit.  No string of the modelled lengths reaches 2^32.
parse_unsigned(str) ==
    LET digits == IF str # <<>> /\ str[1] = "+" THEN Tail(str) ELSE str
    IN  IF digits # <<>> /\ \A i \in 1..Len(digits) : is_digit(digits[i])
        THEN [ok |-> TRUE, value |-> DecimalValue(digits)]
        ELSE [ok |-> FALSE, value |-> 0]

\* The arms of the match on the unit, shared by both parsers
SecondsPer(unit) ==
    CASE unit = <<"s">> -> 1
      [] unit = <<"m">> -> 60
      [] unit = <<"h">> -> 3600
      [] unit = <<"d">> -> 86400
      [] OTHER -> 0

\* main.rs:342-359, the parser monitor_service calls: the last byte is the
\* unit, whatever is before it is the value.
main_parse_duration(str) ==
    IF Len(str) < 2 THEN Err
    ELSE LET value == parse_unsigned(SubSeq(str, 1, Len(str) - 1))
             unit  == SubSeq(str, Len(str), Len(str))
         IN  IF ~value.ok THEN Err
             ELSE IF SecondsPer(unit) = 0 THEN Err
             ELSE Ok(value.value * SecondsPer(unit))

RECURSIVE take_while_digit(_)
take_while_digit(str) ==
    IF str = <<>> \/ ~is_digit(Head(str)) THEN <<>>
    ELSE <<Head(str)>> \o take_while_digit(Tail(str))

RECURSIVE skip_while_digit(_)
skip_while_digit(str) ==
    IF str = <<>> \/ ~is_digit(Head(str)) THEN str
    ELSE skip_while_digit(Tail(str))

\* char::is_whitespace, for the characters of the model
is_whitespace(ch) == ch \in {" ", "\n", "\t"}

RECURSIVE trim_start(_)
trim_start(str) ==
    IF str # <<>> /\ is_whitespace(Head(str)) THEN trim_start(Tail(str)) ELSE str

RECURSIVE trim_end(_)
trim_end(str) ==
    IF str # <<>> /\ is_whitespace(str[Len(str)])
    THEN trim_end(SubSeq(str, 1, Len(str) - 1))
    ELSE str

trim(str) == trim_end(trim_start(str))

to_lowercase(str) == [i \in 1..Len(str) |-> IF str[i] = "S" THEN "s" ELSE str[i]]

\* utils.rs:419-448, the library parser: leading digits are the value, the
\* rest in lower case is the unit, no unit means seconds.
utils_parse_duration(str) ==
    LET t       == trim(str)
        numeric == take_while_digit(t)
        unit    == to_lowercase(skip_while_digit(t))
    IN  IF numeric = <<>> THEN Err
        ELSE IF unit = <<>> THEN Ok(DecimalValue(numeric))
        ELSE IF SecondsPer(unit) = 0 THEN Err
        ELSE Ok(DecimalValue(numeric) * SecondsPer(unit))

\* config.rs:152-154: default_startup_grace_period
default_startup_grace_period == <<"3", "0", "s">>

\* main.rs:132: the grace period of an unparseable startup_grace_period
FallbackGraceSecs == 30

\* main.rs:131-132: parse_duration(..).unwrap_or_else(|_| Duration::from_secs(30))
grace_secs(str) ==
    IF main_parse_duration(str).ok THEN main_parse_duration(str).secs ELSE FallbackGraceSecs

-----------------------------------------------------------------------------
(* One monitor_service task: main.rs:121-196 *)

Running(s) == pc[s] \notin {"unspawned", "failed", "cancelled"}

Goto(s, p) == pc' = [pc EXCEPT ![s] = p]
Emit(s, e) == log' = [log EXCEPT ![s] = Append(@, e)]

\* main.rs:131-136: the startup grace period, parsed from the global settings,
\* elapses
Grace(s) ==
    /\ pc[s] = "grace"
    /\ grace_period' = [grace_period EXCEPT ![s] = grace_secs(duration_str)]
    /\ Goto(s, "init")
    /\ UNCHANGED <<confVars, libVars, wt, remote, current_commit, current_hash, container, log, timer, supVars>>

\* main.rs:139-145: git_service::init_repository
InitRepository(s) ==
    /\ pc[s] = "init"
    /\ \E res \in InitResults(wt[s], remote[s]) :
          /\ wt' = [wt EXCEPT ![s] = res.wt]
          /\ current_commit' = [current_commit EXCEPT ![s] = res.current_commit]
          /\ IF res.ok
             THEN Goto(s, "check") /\ UNCHANGED log
             ELSE Goto(s, InitFailedPc(cfg[s])) /\ Emit(s, "init_failed")
    /\ UNCHANGED <<confVars, libVars, grace_period, remote, current_hash, container, timer, supVars>>

\* main.rs:155 -> git.rs:552 service::check_for_updates up to the comparison of
\* the hashes (git.rs:166-182); a missing repository is initialised, which
\* counts as an update (git.rs:555-559).
CheckForUpdates(s) ==
    /\ pc[s] = "check"
    /\ IF ~wt[s].exists
       THEN \E res \in InitResults(wt[s], remote[s]) :
               /\ wt' = [wt EXCEPT ![s] = res.wt]
               /\ current_commit' = [current_commit EXCEPT ![s] = res.current_commit]
               /\ current_hash' = [current_hash EXCEPT ![s] = NoCommit]
               /\ IF res.ok
                  THEN Goto(s, UpdatedPc(cfg[s])) /\ log' = [log EXCEPT ![s] = <<"cloned">>]
                  ELSE /\ Goto(s, CheckFailedPc(cfg[s]))
                       /\ log' = [log EXCEPT ![s] = <<"check_failed">>]
       ELSE /\ current_commit' = [current_commit EXCEPT ![s] = wt[s].head]
            /\ current_hash' = [current_hash EXCEPT ![s] = wt[s].head]
            /\ \/ /\ UNCHANGED wt                                  \* fetch failed
                  /\ Goto(s, CheckFailedPc(cfg[s]))
                  /\ log' = [log EXCEPT ![s] = <<"check_failed">>]
               \/ /\ wt' = [wt EXCEPT ![s] = FetchResult(@, remote[s])]
                  /\ IF wt[s].head # RemoteCommit(remote[s])
                     THEN Goto(s, "pull") /\ log' = [log EXCEPT ![s] = <<"fetch">>]
                     ELSE /\ Goto(s, NoUpdatePc(cfg[s]))
                          /\ log' = [log EXCEPT ![s] = <<"fetch", "no_update">>]
    /\ timer' = [timer EXCEPT ![s] = 0]
    /\ UNCHANGED <<confVars, libVars, grace_period, remote, container, supVars>>

\* git.rs:184-186: pull, then current_commit = the hash fetched before; Ok(true)
\* whether the pull moved HEAD ("pull") or found nothing new ("pull_noop")
Pull(s) ==
    /\ pc[s] = "pull"
    /\ \E o \in PullOutcomes(wt[s], remote[s]) :
          CASE o = "ok" ->
                 /\ wt' = [wt EXCEPT ![s] = PullResult(@, remote[s])]
                 /\ current_commit' = [current_commit EXCEPT ![s] = wt[s].origin]
                 /\ Goto(s, UpdatedPc(cfg[s]))
                 /\ Emit(s, IF PullResult(wt[s], remote[s]).head # wt[s].head
                            THEN "pull" ELSE "pull_noop")
            [] o = "conflict" ->
                 /\ wt' = [wt EXCEPT ![s] = ConflictResult(@, remote[s])]
                 /\ UNCHANGED current_commit
                 /\ Goto(s, CheckFailedPc(cfg[s]))
                 /\ Emit(s, "pull_conflict")
            [] OTHER ->
                 /\ UNCHANGED <<wt, current_commit>>
                 /\ Goto(s, CheckFailedPc(cfg[s]))
                 /\ Emit(s, "pull_failed")
    /\ UNCHANGED <<confVars, libVars, grace_period, remote, current_hash, container, timer, supVars>>

\* service.rs:18 run_validation, called at main.rs:209, 260, 304
Validate(s) ==
    /\ pc[s] = "validate"
    /\ \/ Goto(s, AfterValidatePc(cfg[s])) /\ Emit(s, "validate_ok")
       \/ Goto(s, ValidationFailedPc(cfg[s])) /\ Emit(s, "validate_failed")
    /\ UNCHANGED <<confVars, libVars, grace_period, wt, remote, current_commit, current_hash, container, timer, supVars>>

\* main.rs:213-218: git_service::revert_changes; its error is only logged
Revert(s) ==
    /\ pc[s] = "revert"
    /\ LET res == RevertResult(wt[s])
       IN  /\ wt' = [wt EXCEPT ![s] = res.wt]
           /\ current_commit' = [current_commit EXCEPT ![s] = res.current_commit]
           /\ Emit(s, IF res.ok THEN "revert" ELSE "revert_failed")
    /\ Goto(s, RevertedPc(cfg[s]))
    /\ UNCHANGED <<confVars, libVars, grace_period, remote, current_hash, container, timer, supVars>>

\* utils.rs:175 fix_permissions, called at main.rs:228, 279, 323; a failure is
\* only warned about
FixPermissions(s) ==
    /\ pc[s] = "fixperm"
    /\ \/ Emit(s, "fixperm") /\ Goto(s, AfterPermissionsPc(cfg[s]))
       \/ Emit(s, "fixperm_failed") /\ Goto(s, PermissionsFailedPc(cfg[s]))
    /\ UNCHANGED <<confVars, libVars, grace_period, wt, remote, current_commit, current_hash, container, timer, supVars>>

\* main.rs:237 restart_nginx, main.rs:288, 332 restart_service
Restart(s) ==
    /\ pc[s] = "restart"
    /\ LET cmd == RestartCommand(cfg[s], container[s])
       IN  \/ /\ cmd # "none"
              /\ container' = [container EXCEPT ![s] = Restarted(cmd, @)]
              /\ Goto(s, AfterRestartPc(cfg[s]))
              /\ Emit(s, cmd)
           \/ /\ UNCHANGED container
              /\ Goto(s, RestartFailedPc(cfg[s]))
              /\ log' = [log EXCEPT ![s] =
                    IF cmd = "none" THEN Append(@, "restart_failed")
                    ELSE @ \o <<cmd, "restart_failed">>]
    /\ UNCHANGED <<confVars, libVars, grace_period, wt, remote, current_commit, current_hash, timer, supVars>>

\* nginx.rs:57 check_nginx_logs, called at main.rs:180 and main.rs:245
ScanLogs(s) ==
    /\ pc[s] = "logs"
    /\ Goto(s, "sleep")
    /\ Emit(s, "logs")
    /\ UNCHANGED <<confVars, libVars, grace_period, wt, remote, current_commit, current_hash, container, timer, supVars>>

\* Time passes for a sleeping task.
Tick(s) ==
    /\ pc[s] = "sleep"
    /\ timer[s] < WatchInterval
    /\ timer' = [timer EXCEPT ![s] = @ + 1]
    /\ UNCHANGED <<confVars, libVars, grace_period, pc, wt, remote, current_commit, current_hash, container, log,
                   supVars>>

\* A sleep that returns at once.
SleepOverAtOnce(t) == TRUE

\* tokio::time::sleep(watch_interval) completes no earlier than its duration
SleepOver(t) == t >= WatchInterval

\* main.rs:194: sleep(watch_interval), then the next turn of the loop
Sleep(s) ==
    /\ pc[s] = "sleep"
    /\ SleepOver(timer[s])
    /\ Goto(s, "check")
    /\ UNCHANGED <<confVars, libVars, grace_period, wt, remote, current_commit, current_hash, container, log, timer, supVars>>

-----------------------------------------------------------------------------
(* The supervisor and the Ctrl+C task: main.rs:56-118 *)

\* A shutdown that leaves the tasks running.
AbortNone(p) == p

\* tasks.abort_all() at main.rs:90, and the runtime dropping every task it
\* still holds when main returns (main.rs:21, 117): a task that has not
\* returned is dropped at the await it is at.
AbortAll(p) ==
    [s \in DOMAIN p |-> IF p[s] \in {"failed", "cancelled"} THEN p[s] ELSE "cancelled"]

\* main.rs:110-114: remove the lockfile if there is one; a failure is only
\* warned about
RemoveLockfile(lock) == IF lock = "none" THEN {"none"} ELSE {"none", lock}

\* main.rs:109-117 with the runtime shutdown that follows the return of main
MainReturns ==
    /\ lockfile' \in RemoveLockfile(lockfile)
    /\ pc' = AbortAll(pc)
    /\ sigPc' = IF sigPc = "done" THEN "done" ELSE "cancelled"
    /\ supPc' = "exited"

\* main.rs:50-54: File::create and write of the PID, whatever the file holds;
\* a failure is only warned about
WriteLockfile(lock) == {"own", lock}

\* A supervisor that leaves the first service without a task.
SpawnedButOne(S) ==
    [s \in S |-> IF s = CHOOSE x \in S : TRUE THEN "unspawned" ELSE "grace"]

\* main.rs:74-84: one task per element of config.services
Spawned(S) == [s \in S |-> "grace"]

\* main.rs:43-84: write the lockfile, spawn the Ctrl+C task and the service tasks
Startup ==
    /\ supPc = "start"
    /\ lockfile' \in WriteLockfile(lockfile)
    /\ sigPc' = "waiting"
    /\ pc' = Spawned(services)
    /\ supPc' = "select"
    /\ UNCHANGED <<confVars, libVars, grace_period, wt, remote, current_commit, current_hash, container, log,
                   timer, chan, shutdownBy>>

\* main.rs:61-66: the Ctrl+C task receives the signal
CtrlC ==
    /\ sigPc = "waiting"
    /\ sigPc' = "sending"
    /\ UNCHANGED <<confVars, libVars, grace_period, loopVars, supPc, chan, shutdownBy, lockfile>>

\* main.rs:67: tx_clone.send(()) completes once the channel has room
SignalSend ==
    /\ sigPc = "sending"
    /\ chan < 1
    /\ chan' = chan + 1
    /\ sigPc' = "done"
    /\ UNCHANGED <<confVars, libVars, grace_period, loopVars, supPc, shutdownBy, lockfile>>

\* main.rs:88-91: the select takes rx.recv(): abort every task, then leave
SelectShutdown ==
    /\ supPc = "select"
    /\ chan > 0
    /\ chan' = chan - 1
    /\ shutdownBy' = "signal"
    /\ MainReturns
    /\ UNCHANGED <<confVars, libVars, grace_period, wt, remote, current_commit, current_hash, container, log,
                   timer>>

\* main.rs:92-104: the select takes tasks.join_next(): a task has returned
SelectJoin ==
    /\ supPc = "select"
    /\ \E s \in services : pc[s] = "failed"
    /\ supPc' = "send"
    /\ shutdownBy' = "task"
    /\ UNCHANGED <<confVars, libVars, grace_period, loopVars, sigPc, chan, lockfile>>

\* main.rs:105: "If one task ended, trigger shutdown for all": tx.send(())
\* completes once the channel has room, then main leaves
SendShutdown ==
    /\ supPc = "send"
    /\ chan < 1
    /\ chan' = chan + 1
    /\ MainReturns
    /\ UNCHANGED <<confVars, libVars, grace_period, wt, remote, current_commit, current_hash, container, log,
                   timer, shutdownBy>>

\* The remote branch gets a new commit.
RemotePush(s) ==
    /\ supPc # "exited"
    /\ remote[s] < MaxCommit
    /\ remote' = [remote EXCEPT ![s] = @ + 1]
    /\ UNCHANGED <<confVars, libVars, grace_period, pc, wt, current_commit, current_hash, container, log, timer, supVars>>

\* Somebody removes the worktree of a sleeping loop (what git.rs:555 is for).
WorktreeRemoved(s) ==
    /\ pc[s] = "sleep"
    /\ wt[s].exists
    /\ wt' = [wt EXCEPT ![s] = NoWorktree]
    /\ UNCHANGED <<confVars, libVars, grace_period, pc, remote, current_commit, current_hash, container, log,
                   timer, supVars>>

-----------------------------------------------------------------------------
(* Subprocesses that never exit *)

\* The steps of a task that wait for a subprocess: git (git.rs:83-471), sh -c
\* of the validation command (service.rs:21-29), chown (utils.rs:175), docker
\* and compose (docker_utils.rs:17-100), sh -c of the restart command
\* (service.rs:124-132)
SubprocessSteps == {"init", "check", "pull", "validate", "revert", "fixperm", "restart", "logs"}

\* The steps whose subprocess is awaited inside tokio::time::timeout, with
\* DEFAULT_COMMAND_TIMEOUT = 60 seconds (service.rs:15): the validation command
\* (service.rs:21) and the custom restart command (service.rs:124).  When the deadline passes the step returns Err, which is
\* the failure of the step.
HasDeadline(c, step, status) ==
    \/ step = "validate"
    \/ step = "restart" /\ RestartCommand(c, status) = "custom_restart"

\* The subprocess of a step without deadline never exits: cmd.output().await
\* (git.rs:342, docker_utils.rs:93-98) never returns
Hang(s) ==
    /\ pc[s] \in SubprocessSteps
    /\ ~HasDeadline(cfg[s], pc[s], container[s])
    /\ Goto(s, "hung")
    /\ UNCHANGED <<confVars, libVars, grace_period, wt, remote, current_commit, current_hash, container, log, timer, supVars>>

-----------------------------------------------------------------------------
(* Library calls outside the loop *)

\* utils.rs:419: a call of utils::parse_duration (utils.rs:491-501 calls it)
ParseDuration ==
    /\ parsed = NoResult
    /\ parsed' = utils_parse_duration(duration_str)
    /\ UNCHANGED <<confVars, grace_period, loopVars, supVars, acquireVars, composeVars, nginxVars, hcVars, loadVars,
                   pidVars>>

-----------------------------------------------------------------------------
(* Nginx configuration fixes: nginx.rs:224-317, 528-580, 644-648 *)

\* The content of a configuration file is a sequence of pieces of text: the
\* pieces the code looks for, any other text, and the line terminator.
NL == "\n"
ServerOpen == "server {"
LocationOpen == "location / {"
ContentTypeHeader == "add_header X-Content-Type-Options nosniff;"
AutoindexOff == "autoindex off;"
AutoindexOn == "autoindex on;"
OtherText == "text"

Pieces == {NL, ServerOpen, LocationOpen, ContentTypeHeader, AutoindexOff, OtherText}

Contents == UNION { [1..n -> Pieces] : n \in 0..MaxFileLen }

contains(text, piece) == \E i \in 1..Len(text) : text[i] = piece

\* str::lines: the pieces between line terminators, without a last empty line
RECURSIVE split_lines(_, _)
split_lines(content, line) ==
    IF content = <<>> THEN (IF line = <<>> THEN <<>> ELSE <<line>>)
    ELSE IF Head(content) = NL THEN <<line>> \o split_lines(Tail(content), <<>>)
    ELSE split_lines(Tail(content), Append(line, Head(content)))

lines(content) == split_lines(content, <<>>)

\* lines.join("\n")
RECURSIVE join(_)
join(ls) ==
    IF ls = <<>> THEN <<>>
    ELSE IF Len(ls) = 1 THEN ls[1]
    ELSE ls[1] \o <<NL>> \o join(Tail(ls))

\* str::replace
replace(content, from, to) ==
    [i \in 1..Len(content) |-> IF content[i] = from THEN to ELSE content[i]]

\* nginx.rs:554-557: the four lines inserted after a location line
SecurityHeaders ==
    << <<OtherText>>, <<ContentTypeHeader>>, <<OtherText>>, <<OtherText>> >>

\* nginx.rs:551-561: from the server line i on, the first location line that
\* is not the last line gets the headers after it
insert_headers(ls, i) ==
    LET found == { j \in i..(Len(ls) - 1) : contains(ls[j], LocationOpen) }
    IN  IF found = {} THEN ls
        ELSE LET j == CHOOSE k \in found : \A l \in found : k <= l
             IN  SubSeq(ls, 1, j) \o SecurityHeaders \o SubSeq(ls, j + 1, Len(ls))

\* nginx.rs:548-563: for i in 0..lines.len(), the range being that of the
\* lines as read
RECURSIVE server_blocks(_, _, _)
server_blocks(ls, i, n) ==
    IF i > n THEN ls
    ELSE IF contains(ls[i], ServerOpen) THEN server_blocks(insert_headers(ls, i), i + 1, n)
    ELSE server_blocks(ls, i + 1, n)

\* nginx.rs:528-580 on one file: what the file holds afterwards
enhance_security(content) ==
    IF contains(content, ContentTypeHeader) THEN content
    ELSE join(server_blocks(lines(content), 1, Len(lines(content))))

\* nginx.rs:224-317 on one file: what the file holds afterwards (the index
\* files it creates are not configuration files)
fix_common_issues(content, settings) ==
    IF ~settings.auto_fix THEN content
    ELSE IF settings.enable_dir_listing /\ contains(content, AutoindexOff)
    THEN replace(content, AutoindexOff, AutoindexOn)
    ELSE content

\* nginx.rs:644-648
fix_issues(content, settings) == enhance_security(fix_common_issues(content, settings))

FixIssues ==
    /\ fix_count < MaxFixes
    /\ conf_file' = fix_issues(conf_file, nginx_settings)
    /\ conf_after_first' = IF fix_count = 0 THEN conf_file' ELSE conf_after_first
    /\ fix_count' = fix_count + 1
    /\ UNCHANGED <<confVars, grace_period, loopVars, supVars, acquireVars, composeVars, parsed, nginx_settings, hcVars,
                   loadVars, pidVars>>

-----------------------------------------------------------------------------
(* Healthcheck notifications: logger.rs:128-149, 179-199 and utils.rs:381-412 *)

EmptyUrl == ""
InvalidUrl == "not a url"
ValidUrl == "https://hc.example/ping"
Urls == {EmptyUrl, InvalidUrl, ValidUrl}

Message == "message"

\* What becomes of a request that is sent: a success status, another status,
\* or no response (connection refused, timeout)
Responses == {"success", "non_success", "transport_error"}

NoCall == [function |-> "none", url |-> EmptyUrl, is_error |-> FALSE]

\* Url::parse, and the URL check of reqwest's request builder
UrlParses(url) == url = ValidUrl

\* logger.rs:133-137, 185-189: the endpoint of a POST
endpoint(url, is_error) == IF is_error THEN <<url, "/fail">> ELSE <<url>>

\* utils.rs:389-393: the URL of a GET
full_url(url, message, is_error) ==
    IF is_error THEN <<url, "?status=fail&msg=", message>>
                ELSE <<url, "?msg=", message>>

Request(method, url) == [method |-> method, url |-> url]

Notified(function, url, is_error, requests, result) ==
    /\ Len(hc_returned) < MaxNotifications
    /\ hc_call' = [function |-> function, url |-> url, is_error |-> is_error]
    /\ hc_sent' = hc_sent \o requests
    /\ hc_returned' = Append(hc_returned, result)
    /\ UNCHANGED <<confVars, grace_period, loopVars, supVars, acquireVars, composeVars, parsed, nginxVars, loadVars,
                   pidVars>>

\* logger.rs:179-199: send() fails on a URL that does not parse and on a
\* transport error, and `?` hands the error to the caller; the status of a
\* response is not looked at
NotifyHealthcheck ==
    \E url \in Urls, is_error \in BOOLEAN, response \in Responses :
        IF url = EmptyUrl
        THEN Notified("logger::notify_healthcheck", url, is_error, <<>>, "Ok")
        ELSE IF ~UrlParses(url)
        THEN Notified("logger::notify_healthcheck", url, is_error, <<>>, "Err")
        ELSE Notified("logger::notify_healthcheck", url, is_error,
                      <<Request("POST", endpoint(url, is_error))>>,
                      IF response = "transport_error" THEN "Err" ELSE "Ok")

\* logger.rs:122-149: add_service(name, url) and then notify(name, ..); an
\* empty url is never registered
ClientNotify ==
    \E url \in Urls, is_error \in BOOLEAN, response \in Responses :
        IF url = EmptyUrl
        THEN Notified("HealthcheckClient::notify", url, is_error, <<>>, "Ok")
        ELSE IF ~UrlParses(url)
        THEN Notified("HealthcheckClient::notify", url, is_error, <<>>, "Err")
        ELSE Notified("HealthcheckClient::notify", url, is_error,
                      <<Request("POST", endpoint(url, is_error))>>,
                      IF response = "transport_error" THEN "Err" ELSE "Ok")

\* utils.rs:381-412: the url is parsed first, the request is a GET with the
\* message in the query, and a status other than success is an error
UtilsNotifyHealthcheck ==
    \E url \in Urls, is_error \in BOOLEAN, response \in Responses :
        IF ~UrlParses(url)
        THEN Notified("utils::notify_healthcheck", url, is_error, <<>>, "Err")
        ELSE Notified("utils::notify_healthcheck", url, is_error,
                      <<Request("GET", full_url(url, Message, is_error))>>,
                      IF response = "success" THEN "Ok" ELSE "Err")

-----------------------------------------------------------------------------
(* Loading the services file and spawning the tasks: config.rs:367-383, main.rs:29-84 *)

\* A local_path is the sequence of its components
ServiceEntryNames == {"nginx", "api"}
LocalPaths == { <<"app", "config">>, <<"app", "config", "nginx">>, <<"srv">> }

ServiceEntries == [name : ServiceEntryNames, local_path : LocalPaths]

ServicesFile(ss) == [parses |-> TRUE, services |-> ss]
Malformed == [parses |-> FALSE, services |-> <<>>]

NotLoaded == [status |-> "not loaded", services |-> <<>>]
LoadError == [status |-> "Err", services |-> <<>>]
Loaded(ss) == [status |-> "Ok", services |-> ss]

ServicesFiles ==
    {Malformed} \cup
    { ServicesFile(ss) : ss \in UNION { [1..n -> ServiceEntries] : n \in 0..MaxServices } }

\* config.rs:186-196: ServiceConfig::default_nginx
default_nginx == [name |-> "nginx", local_path |-> <<"app", "config", "nginx">>]

\* config.rs:367-383: the file is parsed, and an empty list of services gets
\* the default nginx service; nothing else is looked at
load_from_json(file) ==
    IF ~file.parses THEN LoadError
    ELSE IF file.services = <<>> THEN Loaded(<<default_nginx>>)
    ELSE Loaded(file.services)

\* main.rs:29-38
LoadFromJson ==
    /\ loaded = NotLoaded
    /\ loaded' = load_from_json(services_json)
    /\ UNCHANGED <<confVars, grace_period, loopVars, supVars, acquireVars, composeVars, parsed, nginxVars, hcVars,
                   pidVars, services_json, task>>

\* main.rs:74-84: one task for each service of the loaded configuration
SpawnTasks ==
    /\ loaded.status = "Ok"
    /\ task = <<>>
    /\ task' = [i \in 1..Len(loaded.services) |-> "idle"]
    /\ UNCHANGED <<confVars, grace_period, loopVars, supVars, acquireVars, composeVars, parsed, nginxVars, hcVars,
                   pidVars, services_json, loaded>>

\* git.rs:337-386: a task starts a git command (clone, fetch, pull, reset) in
\* its service's local_path
GitBegin(i) ==
    /\ task[i] = "idle"
    /\ task' = [task EXCEPT ![i] = "git"]
    /\ UNCHANGED <<confVars, grace_period, loopVars, supVars, acquireVars, composeVars, parsed, nginxVars, hcVars,
                   pidVars, services_json, loaded>>

\* the git command exits
GitEnd(i) ==
    /\ task[i] = "git"
    /\ task' = [task EXCEPT ![i] = "idle"]
    /\ UNCHANGED <<confVars, grace_period, loopVars, supVars, acquireVars, composeVars, parsed, nginxVars, hcVars,
                   pidVars, services_json, loaded>>

-----------------------------------------------------------------------------
(* PID files: utils.rs:44-100 *)

\* std::process::id() of the watcher, the PID of another live process, and a
\* PID no process has
OwnPid == 42
OtherPid == 1
DeadPid == 7

\* No process is ever found running
is_process_runningNever(pid) == FALSE

\* utils.rs:95-100: /proc/<pid> exists
is_process_running(pid) == pid \in {OwnPid, OtherPid}

DigitChar(d) == CHOOSE ch \in {"0", "1", "2", "3", "4", "5", "6", "7", "8", "9"} : DigitValue(ch) = d

\* u32 as Display
RECURSIVE to_string(_)
to_string(n) ==
    IF n < 10 THEN <<DigitChar(n)>> ELSE to_string(n \div 10) \o <<DigitChar(n % 10)>>

\* utils.rs:61: writeln!(file, "{}", pid)
PidLine(pid) == to_string(pid) \o <<"\n">>

NoFile == [exists |-> FALSE, content |-> <<>>]
FileWith(content) == [exists |-> TRUE, content |-> content]

\* The files a run may find: none, one written by create_pid_file in any
\* process, a PID without the line terminator, an empty file, other text
PidFiles ==
    {NoFile, FileWith(<<>>), FileWith(<<"x">>), FileWith(to_string(DeadPid))}
        \cup { FileWith(PidLine(pid)) : pid \in {OwnPid, OtherPid, DeadPid} }

\* Result<()>, Result<Option<u32>>
PidOk == [ok |-> TRUE, some |-> FALSE, pid |-> 0]
PidSome(pid) == [ok |-> TRUE, some |-> TRUE, pid |-> pid]
PidErr == [ok |-> FALSE, some |-> FALSE, pid |-> 0]

PidCalled(function, file_after, returned) ==
    /\ Len(pid_calls) < MaxPidCalls
    /\ pid_file' = file_after
    /\ pid_calls' = Append(pid_calls, [function |-> function, file_before |-> pid_file,
                                       file_after |-> file_after, returned |-> returned])
    /\ UNCHANGED <<confVars, grace_period, loopVars, supVars, acquireVars, composeVars, parsed, nginxVars, hcVars, loadVars>>

\* utils.rs:56-66: File::create truncates, writeln writes the PID; either may
\* fail
CreatePidFile ==
    \E outcome \in {"written", "create fails", "writeln fails"} :
        PidCalled("create_pid_file",
                  CASE outcome = "written" -> FileWith(PidLine(OwnPid))
                    [] outcome = "create fails" -> pid_file
                    [] outcome = "writeln fails" -> FileWith(<<>>),
                  IF outcome = "written" THEN PidOk ELSE PidErr)

\* utils.rs:69-92
CheckPidFile ==
    IF ~pid_file.exists THEN PidCalled("check_pid_file", pid_file, PidOk)
    ELSE \/ PidCalled("check_pid_file", pid_file, PidErr)      \* read_to_string fails
         \/ LET pid == parse_unsigned(trim(pid_file.content))
            IN  IF ~pid.ok THEN PidCalled("check_pid_file", pid_file, PidErr)
                ELSE IF is_process_running(pid.value)
                THEN PidCalled("check_pid_file", pid_file, PidSome(pid.value))
                ELSE \/ PidCalled("check_pid_file", NoFile, PidOk)
                     \/ PidCalled("check_pid_file", pid_file, PidErr)  \* remove_file fails

\* utils.rs:44-53
RemoveLockFile ==
    IF ~pid_file.exists THEN PidCalled("remove_lock_file", pid_file, PidOk)
    ELSE \/ PidCalled("remove_lock_file", NoFile, PidOk)
         \/ PidCalled("remove_lock_file", pid_file, PidErr)

-----------------------------------------------------------------------------
(* Two watcher processes acquire the lockfile: main.rs:43-54, utils.rs:17-41 *)

\* The two processes, by PID; both are running
Instances == {OwnPid, OtherPid}

\* The ways to acquire: main's own write, and utils::check_running_instance
AcquireEntries == {"main", "check_running_instance"}

AcquireStep(p, next, read, file_after) ==
    /\ acq_pc' = [acq_pc EXCEPT ![p] = next]
    /\ acq_read' = [acq_read EXCEPT ![p] = read]
    /\ pid_file' = file_after
    /\ UNCHANGED <<confVars, grace_period, loopVars, supVars, parsed, nginxVars, hcVars,
                   loadVars, composeVars, pid_calls, acq_entry>>

\* main.rs:50-54: File::create and write_all of the PID; a failure is only
\* warned about, and main goes on
MainWritesLockfile(p) ==
    /\ acq_entry[p] = "main" /\ acq_pc[p] = "start"
    /\ \E file_after \in {FileWith(to_string(p)), pid_file} :
          AcquireStep(p, "acquired", acq_read[p], file_after)

\* utils.rs:18: lockfile.exists()
AcquireExists(p) ==
    /\ acq_entry[p] = "check_running_instance" /\ acq_pc[p] = "start"
    /\ AcquireStep(p, IF pid_file.exists THEN "read" ELSE "create", acq_read[p], pid_file)

\* utils.rs:20-24: read_to_string, trim, parse
AcquireRead(p) ==
    /\ acq_pc[p] = "read"
    /\ LET pid == parse_unsigned(trim(pid_file.content))
       IN  IF pid_file.exists /\ pid.ok
           THEN AcquireStep(p, "probe", pid.value, pid_file)
           ELSE AcquireStep(p, "error", acq_read[p], pid_file)

\* utils.rs:27-29: is_process_running(pid)
AcquireProbe(p) ==
    /\ acq_pc[p] = "probe"
    /\ AcquireStep(p, IF is_process_running(acq_read[p]) THEN "refused" ELSE "remove",
                   acq_read[p], pid_file)

\* utils.rs:32-34: remove_file of whatever the path names now
AcquireRemove(p) ==
    /\ acq_pc[p] = "remove"
    /\ IF pid_file.exists
       THEN AcquireStep(p, "create", acq_read[p], NoFile)
       ELSE AcquireStep(p, "error", acq_read[p], pid_file)

\* utils.rs:38 -> 56-66: create_pid_file: File::create truncates the file if
\* there is one; the call may fail
CreateTruncating(p, file) ==
    {[next |-> "acquired", file |-> FileWith(PidLine(p))], [next |-> "error", file |-> file]}

AcquireCreate(p) ==
    /\ acq_pc[p] = "create"
    /\ \E r \in CreateTruncating(p, pid_file) : AcquireStep(p, r.next, acq_read[p], r.file)

-----------------------------------------------------------------------------
(* Compose recreate: docker_utils.rs:168-260 *)

\* The files get_compose_file_arg looks for in compose_dir
ConfiguredFile == "custom.yml"
ComposeFiles == {ConfiguredFile, "docker-compose.yml", "compose.yml"}

DockerComposeConfigs ==
    [compose_file : BOOLEAN,            \* Some(ConfiguredFile) / None
     files : SUBSET ComposeFiles,
     v2 : BOOLEAN]

\* docker_utils.rs:116-128: detect_docker_compose_command
detect_docker_compose_command(config) ==
    IF config.v2 THEN "docker compose" ELSE "docker-compose"

\* docker_utils.rs:243-262: the -f argument, or "Err" when no compose file is
\* found
get_compose_file_arg(config) ==
    IF config.compose_file /\ ConfiguredFile \in config.files THEN ConfiguredFile
    ELSE IF "docker-compose.yml" \in config.files THEN "docker-compose.yml"
    ELSE IF "compose.yml" \in config.files THEN "compose.yml"
    ELSE "Err"

\* How a command ends: exit status 0, another exit status, or sh not spawned
Exits == {"success", "failed", "not spawned"}

ComposeStep(command, exit, next, returned) ==
    /\ compose_issued' = Append(compose_issued,
            [command |-> command, exit |-> exit,
             compose_cmd |-> detect_docker_compose_command(compose_config),
             file |-> get_compose_file_arg(compose_config)])
    /\ compose_pc' = next
    /\ compose_returned' = returned
    /\ UNCHANGED <<confVars, grace_period, loopVars, supVars, acquireVars, parsed, nginxVars, hcVars,
                   loadVars, pidVars, compose_config>>

\* docker_utils.rs:169-172
RecreateStart ==
    /\ compose_pc = "idle"
    /\ IF get_compose_file_arg(compose_config) = "Err"
       THEN compose_pc' = "done" /\ compose_returned' = "Err"
       ELSE compose_pc' = "down" /\ UNCHANGED compose_returned
    /\ UNCHANGED <<confVars, grace_period, loopVars, supVars, acquireVars, parsed, nginxVars, hcVars,
                   loadVars, pidVars, compose_config, compose_issued>>

\* A failing down ends the sequence
AfterDownAborts(exit) == IF exit = "success" THEN "build" ELSE "done"

\* docker_utils.rs:181-192: only `?` on the spawn ends the function; another
\* exit status is warned about
AfterDown(exit) == IF exit = "not spawned" THEN "done" ELSE "build"

\* docker_utils.rs:174-192
ComposeDown ==
    /\ compose_pc = "down"
    /\ \E exit \in Exits :
          ComposeStep("down", exit, AfterDown(exit),
                      IF AfterDown(exit) = "done" THEN "Err" ELSE compose_returned)

\* docker_utils.rs:194-212
ComposeBuild ==
    /\ compose_pc = "build"
    /\ \E exit \in Exits :
          IF exit = "success"
          THEN ComposeStep("build", exit, "up", compose_returned)
          ELSE ComposeStep("build", exit, "done", "Err")

\* docker_utils.rs:214-240
ComposeUp ==
    /\ compose_pc = "up"
    /\ \E exit \in Exits :
          ComposeStep("up -d", exit, "done", IF exit = "success" THEN "Ok" ELSE "Err")

-----------------------------------------------------------------------------
(* Specifications *)

\* The library functions not yet called
ParserUnused == parsed = NoResult

NginxUnused ==
    /\ conf_file = <<>>
    /\ conf_after_first = <<>>
    /\ fix_count = 0
    /\ nginx_settings = [auto_fix |-> FALSE, enable_dir_listing |-> FALSE]

HealthcheckUnused ==
    /\ hc_call = NoCall
    /\ hc_sent = <<>>
    /\ hc_returned = <<>>

LoadUnused ==
    /\ services_json = ServicesFile(<<>>)
    /\ loaded = NotLoaded
    /\ task = <<>>

PidFileUnused ==
    /\ pid_file = NoFile
    /\ pid_calls = <<>>

AcquireUnused ==
    /\ acq_entry = <<>>
    /\ acq_pc = <<>>
    /\ acq_read = <<>>

ComposeUnused ==
    /\ compose_config = [compose_file |-> FALSE, files |-> {}, v2 |-> TRUE]
    /\ compose_pc = "idle"
    /\ compose_issued = <<>>
    /\ compose_returned = "none"


\* The worktree a task can find under local_path at start, the remote at r.
InitialWorktrees(r) ==
    {NoWorktree}
    \cup { [NoWorktree EXCEPT !.exists = TRUE, !.head = RemoteCommit(h),
                              !.origin = RemoteCommit(h), !.dirty = d] :
             h \in 1..r, d \in BOOLEAN }
    \cup { [NoWorktree EXCEPT !.exists = TRUE, !.head = LocalCommit(h),
                              !.prev = RemoteCommit(h), !.origin = RemoteCommit(h)] :
             h \in 1..r }
    \cup { [NoWorktree EXCEPT !.exists = TRUE, !.head = OtherBranchHead,
                              !.origin = NoCommit, !.on_branch = FALSE, !.dirty = d] :
             d \in BOOLEAN }

\* What the tasks of the services S find, and the state no step has touched.
Environment(S) ==
    /\ services = S
    /\ remote \in [S -> 1..MaxCommit]
    /\ wt \in [S -> UNION { InitialWorktrees(r) : r \in 1..MaxCommit }]
    /\ \A s \in S : wt[s] \in InitialWorktrees(remote[s])
    /\ current_commit = [s \in S |-> NoCommit]
    /\ current_hash = [s \in S |-> NoCommit]
    /\ container \in [S -> ContainerStatus]
    /\ log = [s \in S |-> <<>>]
    /\ timer = [s \in S |-> 0]
    /\ chan = 0
    /\ shutdownBy = "none"
    /\ grace_period = [s \in S |-> 0]

\* The state when main reaches its select (main.rs:87) with the services S
\* configured and the lockfile written: every task spawned and in its grace
\* period.
Started(S) ==
    /\ Environment(S)
    /\ pc = Spawned(S)
    /\ supPc = "select"
    /\ sigPc = "waiting"
    /\ lockfile = "own"
    /\ NginxUnused
    /\ HealthcheckUnused
    /\ LoadUnused
    /\ PidFileUnused
    /\ ComposeUnused
    /\ AcquireUnused

\* The state when main has loaded the configuration (main.rs:41): no task yet,
\* and whatever lockfile an earlier run left or another instance holds.
AtStart(S) ==
    /\ Environment(S)
    /\ pc = [s \in S |-> "unspawned"]
    /\ supPc = "start"
    /\ sigPc = "unspawned"
    /\ lockfile \in {"none", "live", "stale"}
    /\ NginxUnused
    /\ HealthcheckUnused
    /\ LoadUnused
    /\ PidFileUnused
    /\ ComposeUnused
    /\ AcquireUnused

\* Whether a step of the service reads the container status: the restart
\* dispatch without a custom command, and the nginx log scan.
ReadsContainer(c) ==
    \/ c.restart_enabled /\ ~c.restart_command
    \/ c.service_type = "nginx" /\ c.monitor_logs

\* One configured service (the legacy environment mode), any sampled options.
Init ==
    /\ Started({"X"})
    /\ duration_str = default_startup_grace_period
    /\ ParserUnused
    /\ cfg \in [{"X"} -> EffectiveConfigs]
    /\ ~ReadsContainer(cfg["X"]) => container["X"] = "Running"

\* Two services: an nginx service with every step configured and a generic
\* service with none but the restart.
NginxFull ==
    Effective([service_type |-> "nginx", validation_command |-> TRUE,
               restart_command |-> FALSE, use_docker_compose |-> FALSE,
               disable_restart |-> FALSE, auto_fix |-> "true", monitor_logs |-> "unset",
               permissions |-> "fix", healthcheck_url |-> TRUE],
              CHOOSE g \in GlobalSettings : g.monitor_logs /\ ~g.disable_restart)

GenericPlain ==
    Effective([service_type |-> "generic", validation_command |-> FALSE,
               restart_command |-> FALSE, use_docker_compose |-> FALSE,
               disable_restart |-> FALSE, auto_fix |-> "unset", monitor_logs |-> "unset",
               permissions |-> "none", healthcheck_url |-> FALSE],
              CHOOSE g \in GlobalSettings : g.monitor_logs /\ ~g.disable_restart)

InitMulti ==
    /\ Started(ServiceNames)
    /\ duration_str = default_startup_grace_period
    /\ ParserUnused
    /\ cfg = [s \in ServiceNames |-> IF s = "X" THEN NginxFull ELSE GenericPlain]
    /\ \A s \in ServiceNames :
          /\ remote[s] = 1
          /\ ~wt[s].dirty /\ wt[s].on_branch /\ ~IsLocal(wt[s].head)
          /\ container[s] # "Stopped"

Next ==
    \/ \E s \in services : Grace(s)
    \/ \E s \in services : InitRepository(s)
    \/ \E s \in services : CheckForUpdates(s)
    \/ \E s \in services : Pull(s)
    \/ \E s \in services : Validate(s)
    \/ \E s \in services : Revert(s)
    \/ \E s \in services : FixPermissions(s)
    \/ \E s \in services : Restart(s)
    \/ \E s \in services : ScanLogs(s)
    \/ \E s \in services : Tick(s)
    \/ \E s \in services : Sleep(s)
    \/ \E s \in services : RemotePush(s)
    \/ \E s \in services : WorktreeRemoved(s)
    \/ CtrlC \/ SignalSend \/ SelectShutdown \/ SelectJoin \/ SendShutdown

\* Two services from the start of main, each with a fresh clone to make, no
\* compose directory set.
InitFromStart ==
    /\ AtStart(ServiceNames)
    /\ duration_str = default_startup_grace_period
    /\ ParserUnused
    /\ cfg = [s \in ServiceNames |->
                (IF s = "X" THEN NginxFull ELSE GenericPlain) @@ ComposeDirs(FALSE, FALSE)]
    /\ \A s \in ServiceNames :
          /\ remote[s] = 1
          /\ wt[s] = NoWorktree
          /\ container[s] = "Running"

\* An nginx service with a validation command, its options as the file sets
\* them: each of auto_fix, monitor_logs, permissions and disable_restart set
\* either way or left out.
OptionSamples ==
    { sc \in ServiceConfig :
        /\ sc.service_type = "nginx" /\ sc.validation_command
        /\ ~sc.restart_command /\ ~sc.use_docker_compose /\ ~sc.healthcheck_url }

\* One service with a fresh clone to make; cfg keeps, next to the options as
\* the loop reads them, the ServiceConfig and GlobalSettings they come from.
InitConfig ==
    /\ Started({"X"})
    /\ duration_str = default_startup_grace_period
    /\ ParserUnused
    /\ \E sc \in OptionSamples, g \in GlobalSettings :
          cfg = [s \in {"X"} |-> Effective(sc, g) @@ [service |-> sc, global |-> g]]
    /\ remote["X"] = 1
    /\ wt["X"] = NoWorktree
    /\ container["X"] = "Running"

\* One service with a fresh clone to make and any duration literal as its
\* startup_grace_period; the same literal is handed to utils::parse_duration.
InitDuration ==
    /\ Started({"X"})
    /\ duration_str \in Literals
    /\ ParserUnused
    /\ cfg = [s \in {"X"} |-> GenericPlain]
    /\ remote["X"] = 1
    /\ wt["X"] = NoWorktree
    /\ container["X"] = "Running"

NextDuration ==
    \/ \E s \in services : Grace(s)
    \/ \E s \in services : InitRepository(s)
    \/ ParseDuration

\* Any configuration file, fixed up to MaxFixes times
InitNginx ==
    /\ Environment({})
    /\ pc = <<>> /\ cfg = <<>>
    /\ supPc = "select" /\ sigPc = "waiting" /\ lockfile = "own"
    /\ duration_str = default_startup_grace_period
    /\ ParserUnused
    /\ conf_file \in Contents
    /\ conf_after_first = <<>>
    /\ fix_count = 0
    /\ nginx_settings \in [auto_fix : BOOLEAN, enable_dir_listing : BOOLEAN]
    /\ HealthcheckUnused
    /\ LoadUnused
    /\ PidFileUnused
    /\ ComposeUnused
    /\ AcquireUnused

NextNginx == FixIssues

\* No task and no notification yet
InitHealthcheck ==
    /\ Started({})
    /\ cfg = <<>>
    /\ duration_str = default_startup_grace_period
    /\ ParserUnused

NextHealthcheck == NotifyHealthcheck \/ ClientNotify \/ UtilsNotifyHealthcheck

\* Any services file, before main loads it
InitLoad ==
    /\ Environment({})
    /\ pc = <<>> /\ cfg = <<>>
    /\ supPc = "select" /\ sigPc = "waiting" /\ lockfile = "own"
    /\ duration_str = default_startup_grace_period
    /\ ParserUnused /\ NginxUnused /\ HealthcheckUnused
    /\ services_json \in ServicesFiles
    /\ loaded = NotLoaded
    /\ task = <<>>
    /\ PidFileUnused
    /\ ComposeUnused
    /\ AcquireUnused

\* Any PID file, or none, before the first call
InitPidFile ==
    /\ Environment({})
    /\ pc = <<>> /\ cfg = <<>>
    /\ supPc = "select" /\ sigPc = "waiting" /\ lockfile = "own"
    /\ duration_str = default_startup_grace_period
    /\ ParserUnused /\ NginxUnused /\ HealthcheckUnused /\ LoadUnused /\ ComposeUnused
    /\ AcquireUnused
    /\ pid_file \in PidFiles
    /\ pid_calls = <<>>

NextPidFile == CreatePidFile \/ CheckPidFile \/ RemoveLockFile

\* Any compose configuration, before recreate_with_docker_compose is called
InitCompose ==
    /\ Environment({})
    /\ pc = <<>> /\ cfg = <<>>
    /\ supPc = "select" /\ sigPc = "waiting" /\ lockfile = "own"
    /\ duration_str = default_startup_grace_period
    /\ ParserUnused /\ NginxUnused /\ HealthcheckUnused /\ LoadUnused /\ PidFileUnused
    /\ AcquireUnused
    /\ compose_config \in DockerComposeConfigs
    /\ compose_pc = "idle"
    /\ compose_issued = <<>>
    /\ compose_returned = "none"

\* Two watcher processes start at about the same time, each on one of the
\* two ways to acquire, with whatever lockfile an earlier run left
InitAcquire ==
    /\ Environment({})
    /\ pc = <<>> /\ cfg = <<>>
    /\ supPc = "start" /\ sigPc = "unspawned" /\ lockfile = "none"
    /\ duration_str = default_startup_grace_period
    /\ ParserUnused /\ NginxUnused /\ HealthcheckUnused /\ LoadUnused /\ ComposeUnused
    /\ pid_file \in PidFiles \ {FileWith(PidLine(p)) : p \in Instances}
    /\ pid_calls = <<>>
    /\ acq_entry \in [Instances -> AcquireEntries]
    /\ acq_pc = [p \in Instances |-> "start"]
    /\ acq_read = [p \in Instances |-> 0]

NextAcquire ==
    \E p \in Instances :
        \/ MainWritesLockfile(p)
        \/ AcquireExists(p)
        \/ AcquireRead(p)
        \/ AcquireProbe(p)
        \/ AcquireRemove(p)
        \/ AcquireCreate(p)

NextCompose == RecreateStart \/ ComposeDown \/ ComposeBuild \/ ComposeUp

NextLoad ==
    \/ LoadFromJson
    \/ SpawnTasks
    \/ \E i \in DOMAIN task : GitBegin(i)
    \/ \E i \in DOMAIN task : GitEnd(i)

NextFromStart == Startup \/ Next

\* One service from the start of main, every step configured, with a fresh
\* clone to make
InitShutdown ==
    /\ AtStart({"X"})
    /\ duration_str = default_startup_grace_period
    /\ ParserUnused
    /\ cfg = [s \in {"X"} |-> NginxFull @@ ComposeDirs(FALSE, FALSE)]
    /\ remote["X"] = 1
    /\ wt["X"] = NoWorktree
    /\ container["X"] = "Running"

\* One service with a fresh clone to make, any sampled options; a subprocess
\* may never exit.
InitHang ==
    /\ Init
    /\ remote["X"] = 1
    /\ wt["X"] = NoWorktree
    /\ container["X"] = "Running"

NextHang == (\E s \in services : Hang(s)) \/ Next

Spec == Init /\ [][Next]_vars

SpecFromStart == InitFromStart /\ [][NextFromStart]_vars

SpecConfig == InitConfig /\ [][Next]_vars

SpecMulti == InitMulti /\ [][Next]_vars

SpecDuration == InitDuration /\ [][NextDuration]_vars

SpecNginx == InitNginx /\ [][NextNginx]_vars

SpecHealthcheck == InitHealthcheck /\ [][NextHealthcheck]_vars

SpecLoad == InitLoad /\ [][NextLoad]_vars

SpecHang == InitHang /\ [][NextHang]_vars

SpecPidFile == InitPidFile /\ [][NextPidFile]_vars

SpecCompose == InitCompose /\ [][NextCompose]_vars

SpecAcquire == InitAcquire /\ [][NextAcquire]_vars

\* The runtime polls a task that can go on: the supervisor at its select and
\* at its send, the Ctrl+C task at its send; and the program as a whole does
\* not stop while a task can take a step
SupervisorFairness ==
    /\ WF_vars(NextFromStart)
    /\ WF_vars(Startup)
    /\ WF_vars(SignalSend)
    /\ WF_vars(SelectShutdown)
    /\ WF_vars(SelectJoin)
    /\ WF_vars(SendShutdown)

SpecShutdown == InitShutdown /\ [][NextFromStart]_vars /\ SupervisorFairness

-----------------------------------------------------------------------------
(* Vocabulary of the properties *)

Has(s, e) == \E i \in DOMAIN log[s] : log[s][i] = e

\* The commands of a restart step
RestartCommands ==
    {"docker_restart", "docker_start", "compose_restart", "compose_recreate",
     "custom_restart"}

\* The cycle of s is over: the loop sleeps, or the task has returned.
CycleEnded(s) == pc[s] \in {"sleep", "failed"}

\* The task of s returned because init_repository failed (the Aborted of spec.md 4.5).
Aborted(s) == pc[s] = "failed" /\ log[s] = <<"init_failed">>

\* check_for_updates of the cycle returned Err
CheckFailed(s) ==
    Has(s, "check_failed") \/ Has(s, "pull_failed") \/ Has(s, "pull_conflict")

\* The phase of an event: fetch, pull, validate, revert, permissions, restart,
\* observe.
Rank(e) ==
    CASE e \in {"fetch", "cloned", "check_failed"} -> 1
      [] e \in {"pull", "pull_noop", "pull_failed", "pull_conflict", "no_update"} -> 2
      [] e \in {"validate_ok", "validate_failed"} -> 3
      [] e \in {"revert", "revert_failed"} -> 4
      [] e \in {"fixperm", "fixperm_failed"} -> 5
      [] e \in RestartCommands -> 6
      [] e = "restart_failed" -> 7
      [] e = "logs" -> 8
      [] OTHER -> 0

\* The grammar of duration literals: <uint>[s|m|h|d], and what a literal of
\* the grammar denotes in seconds (a bare integer is seconds).
IsUnsigned(str) == str # <<>> /\ \A i \in 1..Len(str) : str[i] \in Digits

DurationLiteral(str) ==
    \/ IsUnsigned(str)
    \/ /\ Len(str) >= 2
       /\ IsUnsigned(SubSeq(str, 1, Len(str) - 1))
       /\ str[Len(str)] \in Units

Denoted(str) ==
    IF IsUnsigned(str) THEN DecimalValue(str)
    ELSE DecimalValue(SubSeq(str, 1, Len(str) - 1)) * SecondsPer(<<str[Len(str)]>>)

Expected(str) == IF DurationLiteral(str) THEN Ok(Denoted(str)) ELSE Err

PastGrace(s) == pc[s] \notin {"unspawned", "grace"}

\* Two paths overlap when one is the other or lies under it
IsPrefix(p, q) == Len(p) <= Len(q) /\ SubSeq(q, 1, Len(p)) = p

Overlap(p, q) == IsPrefix(p, q) \/ IsPrefix(q, p)

\* A service with none of the three ways to restart that the specification
\* names: a restart_command, compose with a docker_compose_dir, a default
\* compose directory
RestartUndefined(c) ==
    /\ ~c.restart_command
    /\ ~(c.use_docker_compose /\ c.docker_compose_dir)
    /\ ~c.default_compose_dir

\* The PID file records a PID that no process has
RecordsDeadPid(file) ==
    /\ file.exists
    /\ parse_unsigned(trim(file.content)).ok
    /\ ~(parse_unsigned(trim(file.content)).value \in {OwnPid, OtherPid})

\* The steps of a cycle
CycleSteps == {"check", "pull", "validate", "revert", "fixperm", "restart", "logs"}

\* The service restarts by plain docker: restart_container of its container
RestartsSimply(c) ==
    /\ c.restart_enabled /\ ~c.use_docker_compose
    /\ c.service_type = "nginx" \/ ~c.restart_command

\* The events a step added to the log of s
Issued(s) == SubSeq(log'[s], Len(log[s]) + 1, Len(log'[s]))

\* The location block that opens on line j of ls: the lines after j up to the
\* next line that opens a location or a server, and how many of them are the
\* X-Content-Type-Options header
BlockEnd(ls, j) ==
    LET opens == { k \in (j + 1)..Len(ls) :
                     contains(ls[k], LocationOpen) \/ contains(ls[k], ServerOpen) }
    IN  IF opens = {} THEN Len(ls) ELSE (CHOOSE k \in opens : \A l \in opens : k <= l) - 1

HeadersIn(ls, j) ==
    Cardinality({ k \in (j + 1)..BlockEnd(ls, j) : contains(ls[k], ContentTypeHeader) })

\* A step of the loop of s brings the worktree HEAD to the remote head, by a
\* clone or a pull that succeeded
Advanced(s) ==
    /\ pc[s] \in {"init", "check", "pull"}
    /\ pc'[s] \notin {"failed", "cancelled"}
    /\ wt'[s].exists
    /\ wt'[s].head # wt[s].head
    /\ wt'[s].head = RemoteCommit(remote[s])

-----------------------------------------------------------------------------
(* Properties *)

C2_Original ==
    \A s \in services : Has(s, "validate_failed") => pc[s] # "failed"

C4_NoRestartAfterValidationFailure ==
    \A s \in services :
        Has(s, "validate_failed") =>
            \A i \in DOMAIN log[s] : log[s][i] \notin RestartCommands \cup {"restart_failed"}

\* C4, witness: the validation of an apache service with the restart enabled
\* failed and its cycle is over.
C4_Witness ==
    \E s \in services :
        /\ CycleEnded(s) /\ Has(s, "validate_failed")
        /\ cfg[s].restart_enabled /\ cfg[s].service_type = "apache"

\* C5 as stated: after a failed restart the cycle has reverted and HEAD is the
\* HEAD from before the fetch of the cycle.
C5_Original ==
    \A s \in services :
        CycleEnded(s) /\ Has(s, "restart_failed") =>
            Has(s, "revert") /\ wt[s].head = current_hash[s]

\* C6 as stated: a restart that fails because the container does not exist,
\* Docker Compose not in use, does not terminate the loop.
C6_Original ==
    \A s \in services :
        /\ Has(s, "restart_failed")
        /\ container[s] = "NotExists" /\ ~cfg[s].use_docker_compose
        /\ ~cfg[s].restart_command
        => pc[s] # "failed"

\* C7: when check_for_updates fails, the cycle holds no validation, revert,
\* permission fix or restart, and the task is still there: sleeping, or back at
\* the next check, unless a shutdown cancelled it.
C7_CheckFailureIsRetried ==
    \A s \in services :
        CheckFailed(s) =>
            /\ pc[s] \in {"sleep", "check", "cancelled"}
            /\ \A i \in DOMAIN log[s] :
                  log[s][i] \in {"fetch", "check_failed", "pull_failed", "pull_conflict"}

\* C7, witness: after a failed pull the loop has slept and is at its next check.
C7_Witness ==
    \E s \in services : pc[s] = "check" /\ log[s] = <<"fetch", "pull_failed">>

\* C8 as stated: after a cycle whose pull reported a conflict the worktree has
\* been reset to the pre-pull commit: no merge is left unfinished, and HEAD and
\* current_commit are that commit.
C8_Original ==
    \A s \in services :
        pc[s] = "sleep" /\ Has(s, "pull_conflict") /\ wt[s].exists =>
            /\ ~wt[s].merging
            /\ wt[s].head = current_hash[s]
            /\ current_commit[s] = current_hash[s]

\* C9 as stated: with a healthcheck_url, a cycle that pulled an update ends with
\* a ping: to url/fail when a step failed, to the url otherwise.
C9_Original ==
    \A s \in services :
        cfg[s].healthcheck_url /\ CycleEnded(s) /\ Has(s, "pull") =>
            IF Has(s, "validate_failed") \/ Has(s, "restart_failed")
            THEN Has(s, "healthcheck_fail")
            ELSE Has(s, "healthcheck_ok")

\* C10: the events of a cycle come in the order fetch, pull, validate,
\* permissions, restart, observe, each phase at most once; a restart command is
\* issued only in a cycle without a failed validation and, when the service has
\* a validation command, after that validation passed.
C10_StepsOrdered ==
    \A s \in services :
        /\ \A i, j \in DOMAIN log[s] : i < j => Rank(log[s][i]) < Rank(log[s][j])
        /\ \A j \in DOMAIN log[s] :
              log[s][j] \in RestartCommands =>
                  /\ ~Has(s, "validate_failed")
                  /\ cfg[s].validation_command =>
                        \E i \in 1..(j - 1) : log[s][i] = "validate_ok"

\* C10, witness: a full cycle of an nginx service, every step in its place.
C10_Witness ==
    \E s \in services :
        /\ pc[s] = "sleep"
        /\ log[s] = <<"fetch", "pull", "validate_ok", "fixperm", "docker_restart", "logs">>

\* C11: a task is at one await at a time, so a service has one cycle in
\* progress at most; no time counts towards the interval while a cycle is in
\* progress, and a check that follows a cycle of the service starts only when
\* watch_interval has been slept since that cycle completed.
C11_OneCycleAtATime ==
    \A s \in services :
        /\ pc[s] \notin {"sleep", "check", "cancelled"} => timer[s] = 0
        /\ pc[s] = "check" /\ log[s] # <<>> => timer[s] >= WatchInterval

\* C11, witness: a second check of a service is about to start, a full
\* watch_interval after its previous cycle (which pulled and restarted) ended.
C11_Witness ==
    \E s \in services :
        /\ pc[s] = "check" /\ Has(s, "pull") /\ Has(s, "docker_restart")
        /\ timer[s] = WatchInterval

\* C12 as stated: a shutdown never ends a loop in the middle of a phase: a task
\* is cancelled only between phases, never at the await of a pull, a
\* validation, a permission fix or a restart.
C12_Original ==
    [][\A s \in services :
          pc'[s] = "cancelled" /\ pc[s] # "cancelled" =>
              pc[s] \notin {"pull", "validate", "fixperm", "restart"}]_vars

\* C13 as stated: a supervisor that starts while the lockfile records a live
\* process refuses to start, leaving the lockfile as it is and spawning no
\* loop; a stale lockfile is replaced by one with the current PID (unless the
\* file cannot be written).
C13_Original ==
    [][supPc = "start" =>
          /\ lockfile = "live" =>
                lockfile' = "live" /\ \A s \in services : pc'[s] = "unspawned"
          /\ lockfile = "stale" => lockfile' \in {"own", "stale"}]_vars

\* C14 as stated: the lockfile exists exactly while the supervisor is live: it
\* exists whenever a loop is running, and it is absent once the supervisor has
\* exited through its shutdown.
C14_Original ==
    /\ (\E s \in services : Running(s)) => lockfile # "none"
    /\ supPc = "exited" => lockfile = "none"

\* The shutdown has not been requested: main is at its select, no signal has
\* arrived and nothing is queued in the shutdown channel.
NoShutdownRequest == supPc = "select" /\ sigPc = "waiting" /\ chan = 0

C16_Original ==
    \A s \in services :
        wt[s].exists => current_commit[s] \in {NoCommit, wt[s].head}

\* C17 as stated: when a tick of a service is over, the commit its worktree is
\* at is the commit it was at before the tick or the head of the remote branch
\* as the tick fetched or pulled it; a tick produces no other commit.
C17_Original ==
    \A s \in services :
        CycleEnded(s) /\ ~Aborted(s) /\ wt[s].exists =>
            wt[s].head \in {current_hash[s], wt[s].origin, RemoteCommit(remote[s])}

\* check_for_updates of the cycle has just returned Ok(true) from its pull.
ReturnedTrue(s) ==
    /\ log[s] # <<>>
    /\ log[s][Len(log[s])] \in {"pull", "pull_noop"}

\* C18 as stated: check_and_pull returns true only when the call moved HEAD to
\* a new commit, and false when the local head is the remote head.
C18_Original ==
    \A s \in services :
        /\ ReturnedTrue(s) /\ wt[s].exists => wt[s].head # current_hash[s]
        /\ Has(s, "no_update") /\ wt[s].exists => current_hash[s] = wt[s].origin

\* The check of a tick of s is about to run, and the local head is the remote head.
QuietTickStarts(s) ==
    pc[s] = "check" /\ wt[s].exists /\ wt[s].head = RemoteCommit(remote[s])

\* C19: a tick that finds the local head equal to the remote head (and so each
\* of two such ticks in a row) neither pulls nor validates, reverts, fixes
\* permissions or restarts, and leaves the worktree as it is but for the
\* remote-tracking ref: its check goes on to the log scan or the sleep, and a
\* cycle with "no_update" holds no event but the fetch and the log scan.
C19_QuietTicksChangeNothing ==
    /\ [](\A s \in services :
            Has(s, "no_update") =>
                \A i \in DOMAIN log[s] : log[s][i] \in {"fetch", "no_update", "logs"})
    /\ [][\A s \in services :
            QuietTickStarts(s) /\ pc'[s] \notin {"check", "cancelled"} =>
                /\ pc'[s] \in {"logs", "sleep"}
                /\ log'[s] \in {<<"fetch", "no_update">>, <<"check_failed">>}
                /\ wt'[s] = [wt[s] EXCEPT !.origin = RemoteCommit(remote[s])]]_vars

\* C19, witness: between two ticks: the last tick found nothing new, the
\* interval has been slept, and the next check starts with the local head
\* still the remote head.
C19_Witness ==
    \E s \in services :
        /\ QuietTickStarts(s) /\ Has(s, "no_update")
        /\ timer[s] = WatchInterval /\ wt[s].head = current_hash[s]

\* The value an option has by the rule "the service's own value when it is
\* set, the global default otherwise".  An Option is set when it is Some; the
\* permission fix is set by a permissions block; disable_restart, a plain bool
\* that serde defaults to false, is set when it is true.
RuleAutoFix(sc, g) == IF sc.auto_fix # "unset" THEN sc.auto_fix = "true" ELSE g.auto_fix
RuleMonitorLogs(sc, g) ==
    IF sc.monitor_logs # "unset" THEN sc.monitor_logs = "true" ELSE g.monitor_logs
RuleFixPermissions(sc, g) ==
    IF sc.permissions # "none" THEN sc.permissions = "fix" ELSE g.fix_permissions
RuleDisableRestart(sc, g) == IF sc.disable_restart THEN TRUE ELSE g.disable_restart

\* C20 as stated: the loop acts on each option by that rule: it reverts after a
\* failed validation exactly when auto_fix is on, scans the logs of an idle
\* nginx service exactly when monitor_logs is on, and after a passed validation
\* runs the permission fix exactly when fix_permissions is on and the restart
\* exactly when disable_restart is off.
C20_Original ==
    \A s \in services :
        LET sc == cfg[s].service
            g == cfg[s].global
            reverted == Has(s, "revert") \/ Has(s, "revert_failed")
            fixed == Has(s, "fixperm") \/ Has(s, "fixperm_failed")
            restarted == \E i \in DOMAIN log[s] :
                            log[s][i] \in RestartCommands \cup {"restart_failed"}
        IN  /\ CycleEnded(s) /\ Has(s, "validate_failed") =>
                  (reverted <=> RuleAutoFix(sc, g))
            /\ pc[s] = "sleep" /\ Has(s, "no_update") =>
                  (Has(s, "logs") <=> RuleMonitorLogs(sc, g))
            /\ CycleEnded(s) /\ Has(s, "validate_ok") =>
                  /\ fixed <=> RuleFixPermissions(sc, g)
                  /\ restarted <=> ~RuleDisableRestart(sc, g)

\* C21: the duration parser accepts exactly the literals <uint>[s|m|h|d], a bare
\* integer being seconds, returns what they denote, and rejects every other
\* string: once a task has parsed its startup_grace_period (main.rs) and once
\* utils::parse_duration has returned, each result is the grammar's.
C21_Original ==
    /\ \A s \in services :
          PastGrace(s) => main_parse_duration(duration_str) = Expected(duration_str)
    /\ parsed # NoResult => parsed = Expected(duration_str)

\* C22: a task waits exactly what its startup_grace_period denotes by the
\* grammar, bare integers included, before its first Git operation.
C22_Original ==
    \A s \in services :
        PastGrace(s) /\ DurationLiteral(duration_str)
            => grace_period[s] = Denoted(duration_str)

\* C23: with a startup_grace_period outside the grammar no task ever gets to a
\* Git, validation or restart step.
C23_Original ==
    ~DurationLiteral(duration_str) =>
        \A s \in services : pc[s] \in {"unspawned", "grace", "init"} /\ ~wt[s].exists

\* C24: fix_issues is idempotent: a configuration file is after two
\* applications what it was after one, and the second application adds no
\* security headers.
C24_Original == fix_count >= 2 => conf_file = conf_after_first

\* C25: a healthcheck notification never returns an error to its caller; with
\* an empty URL it sends nothing, with another URL what it sends is a POST to
\* url + "/fail" for an error event and to url for a success event.
C25_Original ==
    /\ \A i \in 1..Len(hc_returned) : hc_returned[i] = "Ok"
    /\ hc_call.function # "none" /\ hc_call.url = EmptyUrl => hc_sent = <<>>
    /\ \A i \in 1..Len(hc_sent) :
          \E url \in Urls \ {EmptyUrl} :
              hc_sent[i] \in {Request("POST", <<url, "/fail">>), Request("POST", <<url>>)}

\* C26: no two tasks run a git command at the same time for services of the
\* same name or of overlapping local_path (the load having rejected every
\* configuration with two such services).
C26_Original ==
    \A i, j \in DOMAIN task :
        i # j /\ task[i] = "git" /\ task[j] = "git"
            => /\ loaded.services[i].name # loaded.services[j].name
               /\ ~Overlap(loaded.services[i].local_path, loaded.services[j].local_path)

\* C27: a service with neither a restart_command, nor compose with a
\* docker_compose_dir, nor a default compose directory never issues a restart
\* command (main having refused to start its task).
C27_Original ==
    \A s \in services :
        RestartUndefined(cfg[s]) => \A i \in 1..Len(log[s]) : log[s][i] \notin RestartCommands

\* C28: the life cycle of a PID file, for calls that return Ok: check_pid_file
\* right after create_pid_file returns the PID of this process and leaves the
\* file as it is; check_pid_file on a file recording a dead PID returns none
\* and removes the file; remove_lock_file leaves no file, and on an absent file
\* it succeeds and changes nothing.
C28_PidFileLifeCycle ==
    \A i \in 1..Len(pid_calls) :
        LET call == pid_calls[i]
        IN  /\ /\ i > 1
               /\ pid_calls[i - 1].function = "create_pid_file" /\ pid_calls[i - 1].returned.ok
               /\ call.function = "check_pid_file" /\ call.returned.ok
               => /\ call.returned = PidSome(OwnPid)
                  /\ call.file_after = call.file_before /\ call.file_after.exists
            /\ /\ call.function = "check_pid_file" /\ call.returned.ok
               /\ RecordsDeadPid(call.file_before)
               => call.returned = PidOk /\ call.file_after = NoFile
            /\ call.function = "remove_lock_file" /\ call.returned.ok
               => call.file_after = NoFile
            /\ call.function = "remove_lock_file" /\ ~call.file_before.exists
               => call.returned = PidOk /\ call.file_after = call.file_before

\* C28 witness: the test's run (create, check, remove, each returning Ok) after
\* a stale file was found
C28_Witness ==
    /\ Len(pid_calls) = 3
    /\ pid_calls[1].function = "create_pid_file" /\ pid_calls[1].returned.ok
    /\ RecordsDeadPid(pid_calls[1].file_before)
    /\ pid_calls[2].function = "check_pid_file" /\ pid_calls[2].returned = PidSome(OwnPid)
    /\ pid_calls[3].function = "remove_lock_file" /\ pid_calls[3].returned.ok
    /\ pid_file = NoFile

\* C29: no step of a cycle waits for ever for its subprocess: a subprocess that
\* never exits ends as a failure of the step when its deadline passes.
C29_Original ==
    [][\A s \in services : pc[s] \in CycleSteps => pc'[s] # "hung"]_vars

\* C30: the restart by plain docker dispatches on the status of the container:
\* for Running it issues exactly one docker restart, for Stopped exactly one
\* docker start, for NotExists it fails with no command issued; a docker
\* command that fails is reported as an error, and nothing else is.
C30_RestartDispatch ==
    [][\A s \in services :
          pc[s] = "restart" /\ RestartsSimply(cfg[s]) /\ pc'[s] \notin {"restart", "cancelled"}
          => /\ container[s] = "Running" =>
                   Issued(s) \in {<<"docker_restart">>, <<"docker_restart", "restart_failed">>}
             /\ container[s] = "Stopped" =>
                   Issued(s) \in {<<"docker_start">>, <<"docker_start", "restart_failed">>}
             /\ container[s] = "NotExists" => Issued(s) = <<"restart_failed">>
             /\ Issued(s)[Len(Issued(s))] = "restart_failed" =>
                   pc'[s] = RestartFailedPc(cfg[s]) /\ container'[s] = container[s]]_vars

\* C30 witness: a stopped container was started by docker start, and the
\* restart step is over.
C30_Witness ==
    \E s \in services :
        /\ RestartsSimply(cfg[s])
        /\ Has(s, "docker_start") /\ ~Has(s, "restart_failed") /\ ~Has(s, "docker_restart")
        /\ pc[s] # "restart" /\ container[s] = "Running"

C32_PermissionFailureNotFatal ==
    \A s \in services :
        Has(s, "fixperm_failed") =>
            /\ pc[s] \in {"restart", "logs", "sleep", "check", "failed", "cancelled"}
            /\ pc[s] = "failed" => Has(s, "restart_failed")
            /\ cfg[s].restart_enabled /\ pc[s] \notin {"restart", "cancelled"} =>
                  \E i \in DOMAIN log[s] :
                      log[s][i] \in RestartCommands \cup {"restart_failed"}
            /\ ~cfg[s].restart_enabled => ~Has(s, "restart_failed")

\* C32, witness: the permissions could not be fixed, the restart command was
\* issued after it and the loop sleeps until its next check.
C32_Witness ==
    \E s \in services :
        /\ pc[s] = "sleep"
        /\ \E i, j \in DOMAIN log[s] :
              i < j /\ log[s][i] = "fixperm_failed" /\ log[s][j] \in RestartCommands

\* C33: while disable_restart is in effect for a service no docker restart or
\* start, no compose restart or recreate and no custom restart command is
\* issued in any cycle and no restart is attempted, while the validation
\* and the permission step of a cycle that pulled an update still run.
C33_NoRestartWhenDisabled ==
    \A s \in services :
        ~cfg[s].restart_enabled =>
            /\ pc[s] # "restart"
            /\ \A i \in DOMAIN log[s] :
                  log[s][i] \notin RestartCommands \cup {"restart_failed"}
            /\ (Has(s, "pull") \/ Has(s, "pull_noop") \/ Has(s, "cloned")) /\ CycleEnded(s) =>
                  /\ cfg[s].validation_command =>
                        Has(s, "validate_ok") \/ Has(s, "validate_failed")
                  /\ cfg[s].fix_permissions /\ ~Has(s, "validate_failed") =>
                        Has(s, "fixperm") \/ Has(s, "fixperm_failed")

\* C33, witness: a service with a restart command and the restart disabled
\* has pulled, validated and fixed the permissions, and sleeps.
C33_Witness ==
    \E s \in services :
        /\ ~cfg[s].restart_enabled /\ cfg[s].restart_command
        /\ pc[s] = "sleep"
        /\ Has(s, "pull") /\ Has(s, "validate_ok") /\ Has(s, "fixperm")

\* C34 as stated: the cycle of an nginx service validates before it restarts,
\* with validation_command when it is set and with `nginx -t` in the
\* container when it is not: a restart command of an nginx service is issued
\* only after a validation of the same cycle passed.
C34_Original ==
    \A s \in services :
        cfg[s].service_type = "nginx" =>
            \A j \in DOMAIN log[s] :
                log[s][j] \in RestartCommands =>
                    \E i \in 1..(j - 1) : log[s][i] = "validate_ok"

\* C35 as stated: in the Applying of a cycle that pulled an update, an nginx
\* service whose effective auto_fix is true has fix_issues run before the
\* restart: its restart command comes after a "fix_issues" event of the cycle.
C35_Original ==
    \A s \in services :
        cfg[s].service_type = "nginx" /\ cfg[s].auto_fix =>
            \A j \in DOMAIN log[s] :
                log[s][j] \in RestartCommands =>
                    \E i \in 1..(j - 1) : log[s][i] = "fix_issues"

\* C36 as stated: one application of the header injection to a file without
\* X-Content-Type-Options, whose locations all come after a server line,
\* leaves every location block with the header exactly once, however the
\* server and location blocks are arranged.
C36_Original ==
    [][ /\ fix_count = 0 /\ ~contains(conf_file, ContentTypeHeader)
        /\ \A j \in DOMAIN lines(conf_file) :
              contains(lines(conf_file)[j], LocationOpen) =>
                  \E i \in 1..(j - 1) : contains(lines(conf_file)[i], ServerOpen)
        =>  LET ls == lines(conf_file')
            IN  \A j \in DOMAIN ls :
                    contains(ls[j], LocationOpen) => HeadersIn(ls, j) = 1 ]_vars

\* C37 as stated: every stash that update() takes because the worktree is
\* dirty is popped before update() returns, when the pull succeeds, when it
\* fails and when it conflicts: once init_repository is over no stash entry
\* is left.
C37_Original ==
    \A s \in services :
        pc[s] \notin {"unspawned", "grace", "init"} => wt[s].stash = 0

\* C38 as stated: in every interleaving of the Ctrl+C task, the service tasks
\* and the supervisor, once the signal has been received or a task has
\* ended, the supervisor eventually leaves (removing the lockfile on its
\* way); it never waits for ever to send on the shutdown channel.
C38_Original ==
    (sigPc \in {"sending", "done"} \/ \E s \in services : pc[s] = "failed")
        ~> (supPc = "exited")

\* C39 as stated: the acquisition of the lockfile is mutually exclusive: of
\* two watcher processes that run the acquire step at the same time, at most
\* one comes out of it as the holder and goes on.
C39_Original ==
    ~(\A p \in Instances : acq_pc[p] = "acquired")

\* C40 as stated: every advance of the worktree HEAD to a new remote commit
\* by a loop, the pull or clone at loop start included, is followed before
\* the next poll by the validation (when configured) and the restart (unless
\* disabled): the step that advances HEAD enters the handler of the update.
C40_Original ==
    [][ \A s \in services :
            Advanced(s) /\ (cfg[s].validation_command \/ cfg[s].restart_enabled) =>
                pc'[s] = UpdatedPc(cfg[s]) /\ pc'[s] \in {"validate", "fixperm", "restart"} ]_vars

====
